---- MODULE Spec2Model ----
(***************************************************************************)
(* Model of crates/ide_assists/src/utils.rs: the helpers that select a     *)
(* trait's associated items, locate an inherent impl of a type, detect a   *)
(* name collision, generate the text of a new impl and stage the insertion *)
(* of a method.                                                            *)
(*                                                                         *)
(* Every helper is a synchronous function of a read-only syntax/semantic   *)
(* snapshot.  A request is one call: from "idle" a call action draws its   *)
(* arguments, runs the whole function and records the arguments in `call`, *)
(* how it ended in `ret` and the insertions handed to the                  *)
(* AssistBuilder in `edits`; Return ends the request.                      *)
(*                                                                         *)
(* Rust's Option is a sequence of length at most one: None is <<>> and     *)
(* Some(x) is <<x>>.  Identifier text is a sequence of UTF-8 bytes, other  *)
(* source text is a string, and a String under construction is the         *)
(* sequence of the pieces pushed to it (Concat gives its text).            *)
(***************************************************************************)
EXTENDS Integers, Sequences, FiniteSets, TLC

VARIABLES pc, call, ret, edits

vars == <<pc, call, ret, edits>>

None == <<>>
Some(x) == <<x>>

\* How a call ended: not yet, by a panic, or by returning a value of the
\* function's return type.
Pending == <<"pending">>
Panicked == <<"panic">>
Returned(type, v) == <<"returned", type, v>>
IsReturned(r) == r[1] = "returned"
Value(r) == r[3]

\* Sequences over S of length at most n.
SeqUpTo(S, n) == UNION {[1..k -> S] : k \in 0..n}

----------------------------------------------------------------------------
(* Bounds of the model.                                                    *)

\* impl blocks among the descendants of the enclosing module
MaxImpls == 2

\* members of an impl's item list
MaxItems == 2

\* attributes of a type declaration
MaxAttrs == 2

\* generic parameters of a type declaration
MaxParams == 3

\* associated items of a trait
MaxTraitItems == 3

----------------------------------------------------------------------------
(* Identifier text, as UTF-8 bytes.                                        *)

name_f == <<102>>
name_F == <<70>>

\* U+00E9, LATIN SMALL LETTER E WITH ACUTE
name_e_acute == <<195, 169>>

\* U+00C9, LATIN CAPITAL LETTER E WITH ACUTE
name_E_acute == <<195, 137>>

Names == {name_f, name_F, name_e_acute, name_E_acute}

\* u8::to_ascii_lowercase: only the bytes of 'A'..='Z' change.
to_ascii_lowercase(b) == IF b >= 65 /\ b <= 90 THEN b + 32 ELSE b

\* str::eq_ignore_ascii_case: same length, bytes equal after ASCII lowering.
eq_ignore_ascii_case(a, b) ==
    /\ Len(a) = Len(b)
    /\ \A i \in 1..Len(a) : to_ascii_lowercase(a[i]) = to_ascii_lowercase(b[i])

----------------------------------------------------------------------------
(* Syntax: the children of an ast::AssocItemList, and ast::Impl nodes.     *)

\* A child of a node before it is placed: its SyntaxKind, its name() (an
\* Option; tokens have none) and the length of its text.
Part(kind, name, len) == [kind |-> kind, name |-> name, len |-> len]

\* A member of an item list: an ast::AssocItem of the kind, with the name().
Member(kind, name) == Part(kind, name, 9)
LCurly == Part("L_CURLY", None, 1)
RCurly == Part("R_CURLY", None, 1)
Whitespace == Part("WHITESPACE", None, 1)

\* The parts laid out from offset `start`: each child gets its text range.
RECURSIVE Layout(_, _)
Layout(start, parts) ==
    IF parts = <<>> THEN <<>>
    ELSE <<[kind |-> Head(parts).kind, name |-> Head(parts).name,
            start |-> start, end |-> start + Head(parts).len]>>
         \o Layout(start + Head(parts).len, Tail(parts))

\* `{ members }` as an item list node that starts at offset 40: its
\* children_with_tokens().
Braced(members) == Layout(40, <<LCurly>> \o members \o <<RCurly>>)

Members ==
    {Member("FN", n) : n \in {None} \cup {Some(x) : x \in Names}}
    \cup {Member(k, Some(x)) : k \in {"TYPE_ALIAS", "CONST"}, x \in Names}
    \cup {Member("MACRO_CALL", None)}

\* assoc_item_list(): None, or the item list node.
ItemLists == {None} \cup {Some(Braced(s)) : s \in SeqUpTo(Members, MaxItems)}

\* AssocItemList::assoc_items: the children that are associated items.
IsAssocItem(c) == c.kind \in {"FN", "TYPE_ALIAS", "CONST", "MACRO_CALL"}
assoc_items(il) == SelectSeq(il, IsAssocItem)

\* Faulty variant of has_fn: a member of any kind collides.
has_fn_any_kind(imp, rhs_name) ==
    /\ imp.assoc_item_list # None
    /\ LET items == assoc_items(imp.assoc_item_list[1]) IN
       \E i \in 1..Len(items) :
          /\ items[i].name # None
          /\ eq_ignore_ascii_case(items[i].name[1], rhs_name)

\* has_fn: some Fn member with a name that equals rhs_name, ASCII case ignored.
has_fn(imp, rhs_name) ==
    /\ imp.assoc_item_list # None
    /\ LET items == assoc_items(imp.assoc_item_list[1]) IN
       \E i \in 1..Len(items) :
          /\ items[i].kind = "FN"
          /\ items[i].name # None
          /\ eq_ignore_ascii_case(items[i].name[1], rhs_name)

----------------------------------------------------------------------------
(* find_struct_impl                                                        *)

\* What sema.to_def gives for an impl: None, or the hir::Impl with
\* self_ty(db).as_adt() and trait_(db), both Options.
ImplDefs ==
    {None}
    \cup {Some([self_ty_adt |-> a, trait_ |-> t]) :
            a \in {None, Some("S"), Some("Other")}, t \in {None, Some("Tr")}}

LocateMembers ==
    {Member("FN", Some(name_f)), Member("FN", Some(name_F)),
     Member("CONST", Some(name_f))}

LocateItemLists ==
    {None, Some(Braced(<<>>))} \cup {Some(Braced(<<m>>)) : m \in LocateMembers}

LocateImpls ==
    {[to_def |-> d, assoc_item_list |-> l] : d \in ImplDefs, l \in LocateItemLists}

\* The impl nodes of a module in document order; `node` is the node's identity.
WithNodes(s) == [i \in 1..Len(s) |-> [node |-> i] @@ s[i]]

\* The ast::Adt: its syntax().parent() (the module, given by the impls among
\* its descendants) and sema.to_def(adt).
LocateAdts ==
    {[parent |-> p, to_def |-> d] :
        p \in {None} \cup {Some(WithNodes(s)) : s \in SeqUpTo(LocateImpls, MaxImpls)},
        d \in {None, Some("S")}}

\* The closure of find_map: the impl resolves, its self type is the ADT and it
\* has no trait.
impl_matches(impl_blk, struct_def) ==
    /\ impl_blk.to_def # None
    /\ LET blk == impl_blk.to_def[1]
           same_ty == blk.self_ty_adt # None /\ blk.self_ty_adt[1] = struct_def
           not_trait_impl == blk.trait_ = None
       IN  same_ty /\ not_trait_impl

\* Faulty variant of find_block: the last impl that matches.
find_block_last(impls, struct_def) ==
    LET hits == {i \in 1..Len(impls) : impl_matches(impls[i], struct_def)}
    IN  IF hits = {} THEN None
        ELSE Some(impls[CHOOSE i \in hits : \A j \in hits : j <= i])

\* Iterator::find_map over the impls: the first that matches, if any.
find_block(impls, struct_def) ==
    LET hits == {i \in 1..Len(impls) : impl_matches(impls[i], struct_def)}
    IN  IF hits = {} THEN None
        ELSE Some(impls[CHOOSE i \in hits : \A j \in hits : i <= j])

\* Faulty variant of find_struct_impl: Some(None) when the declaration has
\* no parent or does not resolve.
find_struct_impl_some_none(adt, name) ==
    IF adt.parent = None THEN Some(None)
    ELSE IF adt.to_def = None THEN Some(None)
    ELSE LET block == find_block(adt.parent[1], adt.to_def[1])
         IN  IF block # None /\ has_fn(block[1], name) THEN None
             ELSE Some(block)

\* find_struct_impl returns Option<Option<ast::Impl>>.
find_struct_impl(adt, name) ==
    IF adt.parent = None THEN None
    ELSE IF adt.to_def = None THEN None
    ELSE LET block == find_block(adt.parent[1], adt.to_def[1])
         IN  IF block # None /\ has_fn(block[1], name) THEN None
             ELSE Some(block)

----------------------------------------------------------------------------
(* Text.                                                                   *)

\* The text of a String built from the pieces pushed to it.
RECURSIVE Concat(_)
Concat(pieces) ==
    IF pieces = <<>> THEN "" ELSE Head(pieces) \o Concat(Tail(pieces))

\* Flattens a sequence of sequences.
RECURSIVE Flatten(_)
Flatten(ss) == IF ss = <<>> THEN <<>> ELSE Head(ss) \o Flatten(Tail(ss))

\* Itertools::format(sep): the items with sep between them.
RECURSIVE Format(_, _)
Format(items, sep) ==
    IF items = <<>> THEN <<>>
    ELSE IF Len(items) = 1 THEN Head(items)
    ELSE Head(items) \o <<sep>> \o Format(Tail(items), sep)

----------------------------------------------------------------------------
(* The type declaration (ast::Adt) that an impl is generated for.          *)

\* An ast::Attr: as_simple_call() gives the name of `#[name(...)]` (None for
\* an attribute of another shape); text is the attribute's own text.
Attr(simple_call, text) == [simple_call |-> simple_call, text |-> text]

Attrs ==
    {Attr(Some("cfg"), "#[cfg(unix)]"),
     Attr(Some("cfg"), "#[cfg(test)]"),
     Attr(Some("derive"), "#[derive(Debug)]"),
     Attr(Some("cfg_attr"), "#[cfg_attr(test, derive(Debug))]"),
     Attr(None, "#[non_exhaustive]")}

\* A child of the ast::GenericParamList: its kind, its text, and the parts
\* the accessors give (lifetime(), name(), colon_token(), type_bound_list()).
LifetimeParam(text, lifetime) ==
    [kind |-> "LIFETIME_PARAM", text |-> text, lifetime |-> lifetime,
     name |-> None, colon_token |-> None, type_bound_list |-> None]
TypeParam(text, name, colon, bounds) ==
    [kind |-> "TYPE_PARAM", text |-> text, lifetime |-> None,
     name |-> name, colon_token |-> colon, type_bound_list |-> bounds]
ConstParam(text, name) ==
    [kind |-> "CONST_PARAM", text |-> text, lifetime |-> None,
     name |-> name, colon_token |-> None, type_bound_list |-> None]

param_a == LifetimeParam("'a", Some("'a"))
param_T == TypeParam("T: Clone", Some("T"), Some(":"), Some("Clone"))
param_U == TypeParam("U", Some("U"), None, None)
param_N == ConstParam("const N: usize", Some("N"))

GenericParams == {param_a, param_T, param_U, param_N}

\* rustc accepts type and const parameters in any order, after the lifetimes.
LifetimesFirst(ps) ==
    \A i, j \in 1..Len(ps) :
        (i < j /\ ps[j].kind = "LIFETIME_PARAM") => ps[i].kind = "LIFETIME_PARAM"

\* generic_param_list(): None, or the parameters in declaration order.
GenericParamLists(n) ==
    {None} \cup {Some(ps) : ps \in {q \in SeqUpTo(GenericParams, n) : LifetimesFirst(q)}}

\* Type declarations with at most na attributes and np generic parameters.
\* The text of the declaration ends at offset 30.
Adts(na, np) ==
    {[name |-> n, attrs |-> a, generic_param_list |-> g, where_clause |-> w,
      text_range_end |-> 30] :
        n \in {None, Some("S")},
        a \in SeqUpTo(Attrs, na),
        g \in GenericParamLists(np),
        w \in {None, Some("where T: Copy")}}

IsLifetimeParam(p) == p.kind = "LIFETIME_PARAM"
IsTypeParam(p) == p.kind = "TYPE_PARAM"
IsConstParam(p) == p.kind = "CONST_PARAM"
lifetime_params(ps) == SelectSeq(ps, IsLifetimeParam)
type_params(ps) == SelectSeq(ps, IsTypeParam)
const_params(ps) == SelectSeq(ps, IsConstParam)

----------------------------------------------------------------------------
(* generate_impl_text_inner                                                *)

\* Faulty variant of is_cfg_attr: cfg_attr is taken too.
is_cfg_attr_prefix(attr) ==
    attr.simple_call # None /\ attr.simple_call[1] \in {"cfg", "cfg_attr"}

\* The filter on adt.attrs(): a simple call named exactly "cfg".
is_cfg_attr(attr) ==
    IF attr.simple_call # None THEN attr.simple_call[1] = "cfg" ELSE FALSE

\* One `format!("{}\n", attr)` per kept attribute.
cfg_attr_lines(attrs) ==
    Flatten([i \in 1..Len(SelectSeq(attrs, is_cfg_attr)) |->
                <<SelectSeq(attrs, is_cfg_attr)[i].text, "\n">>])

\* Faulty variant of render_type_param: the space follows the bounds.
render_type_param_space_after_bounds(type_param) ==
    (IF type_param.name # None THEN <<type_param.name[1]>> ELSE <<>>)
    \o (IF type_param.colon_token # None
        THEN <<type_param.colon_token[1]>> ELSE <<>>)
    \o (IF type_param.type_bound_list # None
        THEN <<type_param.type_bound_list[1], " ">> ELSE <<>>)

\* The closure over type_params(): name, then the colon and a space, then
\* the bound list.
render_type_param(type_param) ==
    (IF type_param.name # None THEN <<type_param.name[1]>> ELSE <<>>)
    \o (IF type_param.colon_token # None
        THEN <<type_param.colon_token[1], " ">> ELSE <<>>)
    \o (IF type_param.type_bound_list # None
        THEN <<type_param.type_bound_list[1]>> ELSE <<>>)

\* Faulty variant of impl_generics: nothing for an empty parameter list.
impl_generics_no_clause_when_empty(generic_params) ==
    LET lifetimes == [i \in 1..Len(lifetime_params(generic_params)) |->
                         <<lifetime_params(generic_params)[i].text>>]
        types == [i \in 1..Len(type_params(generic_params)) |->
                     render_type_param(type_params(generic_params)[i])]
        consts == [i \in 1..Len(const_params(generic_params)) |->
                      <<const_params(generic_params)[i].text>>]
    IN  IF generic_params = <<>> THEN <<>>
        ELSE <<"<">> \o Format(lifetimes \o types \o consts, ", ") \o <<">">>

\* `<{}>` of the parameters after `impl`: the lifetimes, chained with the
\* type parameters, chained with the const parameters, joined by ", ".
impl_generics(generic_params) ==
    LET lifetimes == [i \in 1..Len(lifetime_params(generic_params)) |->
                         <<lifetime_params(generic_params)[i].text>>]
        types == [i \in 1..Len(type_params(generic_params)) |->
                     render_type_param(type_params(generic_params)[i])]
        consts == [i \in 1..Len(const_params(generic_params)) |->
                      <<const_params(generic_params)[i].text>>]
    IN  <<"<">> \o Format(lifetimes \o types \o consts, ", ") \o <<">">>

\* filter_map(|it| it.lifetime()) and filter_map(|it| it.name()).
HasLifetime(p) == p.lifetime # None
HasName(p) == p.name # None

\* `<{}>` after the type name: the lifetimes, the names of the type
\* parameters and the names of the const parameters, joined by ", ".
usage_generics(generic_params) ==
    LET lts == SelectSeq(lifetime_params(generic_params), HasLifetime)
        tys == SelectSeq(type_params(generic_params), HasName)
        cts == SelectSeq(const_params(generic_params), HasName)
        lifetime_names == [i \in 1..Len(lts) |-> <<lts[i].lifetime[1]>>]
        type_names == [i \in 1..Len(tys) |-> <<tys[i].name[1]>>]
        const_names == [i \in 1..Len(cts) |-> <<cts[i].name[1]>>]
    IN  <<"<">> \o Format(lifetime_names \o type_names \o const_names, ", ")
        \o <<">">>

\* generate_impl_text_inner: the pieces pushed to buf, in order; `code` is
\* the pieces of the text passed in.  adt.name().unwrap() panics when the
\* declaration has no name.
generate_impl_text_inner(adt, trait_text, code) ==
    IF adt.name = None THEN Panicked
    ELSE Returned("String",
        <<"\n\n">>
        \o cfg_attr_lines(adt.attrs)
        \o <<"impl">>
        \o (IF adt.generic_param_list # None
            THEN impl_generics(adt.generic_param_list[1]) ELSE <<>>)
        \o <<" ">>
        \o (IF trait_text # None THEN <<trait_text[1], " for ">> ELSE <<>>)
        \o <<adt.name[1]>>
        \o (IF adt.generic_param_list # None
            THEN usage_generics(adt.generic_param_list[1]) ELSE <<>>)
        \o (IF adt.where_clause # None
            THEN <<"\n", adt.where_clause[1], "\n{\n">> \o code \o <<"\n}">>
            ELSE <<" {\n">> \o code \o <<"\n}">>))

generate_impl_text(adt, code) == generate_impl_text_inner(adt, None, code)

generate_trait_impl_text(adt, trait_text, code) ==
    generate_impl_text_inner(adt, Some(trait_text), code)

----------------------------------------------------------------------------
(* find_impl_block_end and add_method_to_adt                               *)

\* support::token: the first child of the kind, if any, by its position.
token_at(il, kind) ==
    LET at == {i \in 1..Len(il) : il[i].kind = kind}
    IN  IF at = {} THEN None ELSE Some(CHOOSE i \in at : \A j \in at : i <= j)

\* Faulty variant of find_impl_block_end: gives the end of the `}` itself.
find_impl_block_end_after_brace(impl_def, buf) ==
    LET pushed == buf \o <<"\n">>
        il == impl_def.assoc_item_list
        r_curly == IF il = None THEN None ELSE token_at(il[1], "R_CURLY")
    IN  [buf |-> pushed,
         end |-> IF r_curly = None \/ r_curly[1] = 1 THEN None
                 ELSE Some(il[1][r_curly[1]].end)]

\* find_impl_block_end: pushes a line break to buf, whatever comes next, then
\* gives the end of what precedes the item list's `}`; each `?` gives None.
find_impl_block_end(impl_def, buf) ==
    LET pushed == buf \o <<"\n">>
        il == impl_def.assoc_item_list
        r_curly == IF il = None THEN None ELSE token_at(il[1], "R_CURLY")
        \* prev_sibling_or_token()
        prev == IF r_curly = None \/ r_curly[1] = 1 THEN None
                ELSE Some(il[1][r_curly[1] - 1])
    IN  [buf |-> pushed,
         end |-> IF prev = None THEN None ELSE Some(prev[1].end)]

\* AssistBuilder::insert: one more staged insertion.
insert(builder, offset, text) ==
    Append(builder, [offset |-> offset, text |-> text])

\* Faulty variant of add_method_to_adt: without a block end nothing is staged.
add_method_to_adt_no_fallback(builder, adt, impl_def, method) ==
    LET buf == (IF impl_def # None THEN <<"\n">> ELSE <<>>) \o <<method>>
        found == IF impl_def # None THEN find_impl_block_end(impl_def[1], buf)
                 ELSE [buf |-> buf, end |-> None]
    IN  IF found.end # None
        THEN [builder |-> insert(builder, found.end[1], found.buf),
              ret |-> Returned("()", <<>>)]
        ELSE [builder |-> builder, ret |-> Returned("()", <<>>)]

\* add_method_to_adt: what the call leaves in the builder, and how it ends.
add_method_to_adt(builder, adt, impl_def, method) ==
    LET buf == (IF impl_def # None THEN <<"\n">> ELSE <<>>) \o <<method>>
        \* impl_def.and_then(|impl_def| find_impl_block_end(impl_def, &mut buf))
        found == IF impl_def # None THEN find_impl_block_end(impl_def[1], buf)
                 ELSE [buf |-> buf, end |-> None]
        \* unwrap_or_else: buf = generate_impl_text(adt, &buf)
        generated == generate_impl_text(adt, found.buf)
    IN  IF found.end # None
        THEN [builder |-> insert(builder, found.end[1], found.buf),
              ret |-> Returned("()", <<>>)]
        ELSE IF generated = Panicked
        THEN [builder |-> builder, ret |-> Panicked]
        ELSE [builder |-> insert(builder, adt.text_range_end, Value(generated)),
              ret |-> Returned("()", <<>>)]

\* Item lists given to add_method_to_adt: closed, unclosed, and a stray `}`.
MethodParts == {Whitespace, Member("FN", Some(name_f))}

MethodItemLists ==
    {None, Some(Layout(40, <<RCurly>>))}
    \cup {Some(Braced(s)) : s \in SeqUpTo(MethodParts, MaxItems)}
    \cup {Some(Layout(40, <<LCurly>> \o s)) : s \in SeqUpTo(MethodParts, MaxItems)}

MethodImpls == {None} \cup {Some([assoc_item_list |-> l]) : l \in MethodItemLists}

----------------------------------------------------------------------------
(* filter_assoc_items                                                      *)

\* An ast::AssocItem with what the functions read of it: name(), the body
\* nodes (body() is the first, if any), type_bound_list(), whether it has
\* attributes or doc comments, and the scope its paths are written for.
\* `node` is its identity; it is given by its position in the trait.
AstItem(kind, name, bodies, bounds, attrs) ==
    [kind |-> kind, node |-> 0, name |-> name, bodies |-> bodies,
     type_bound_list |-> bounds, attrs |-> attrs, paths |-> "trait"]

body(def) == IF def.bodies = <<>> THEN None ELSE Some(Head(def.bodies))

\* A hir::AssocItem: its kind and its source(db), None for an item that has
\* no source.
HirItem(kind, source) == [kind |-> kind, source |-> source]

AstKind(kind) ==
    CASE kind = "Function" -> "FN"
      [] kind = "TypeAlias" -> "TYPE_ALIAS"
      [] kind = "Const" -> "CONST"

ItemName(kind) ==
    CASE kind = "Function" -> "foo"
      [] kind = "TypeAlias" -> "Bar"
      [] kind = "Const" -> "BAZ"

\* Per kind: no source, no name, with and without a body (for a type alias
\* or a const, the body is its default).
HirItems ==
    UNION {{HirItem(k, None),
            HirItem(k, Some(AstItem(AstKind(k), None, <<>>, None, TRUE))),
            HirItem(k, Some(AstItem(AstKind(k), Some(ItemName(k)), <<>>, None, TRUE))),
            HirItem(k, Some(AstItem(AstKind(k), Some(ItemName(k)), <<"{ 1 }">>,
                                    None, TRUE)))} :
           k \in {"Function", "TypeAlias", "Const"}}

\* The items of a trait in declaration order, each source with its identity.
RECURSIVE Numbered(_, _)
Numbered(i, items) ==
    IF items = <<>> THEN <<>>
    ELSE <<IF Head(items).source = None THEN Head(items)
           ELSE [Head(items) EXCEPT !.source[1].node = i]>>
         \o Numbered(i + 1, Tail(items))

TraitItems == {Numbered(1, s) : s \in SeqUpTo(HirItems, MaxTraitItems)}

has_def_name(item) == item.name # None

\* Faulty variant of mode_rule: every kind is selected by its body.
mode_rule_by_body(default_methods, it) ==
    \/ default_methods = "Only" /\ body(it) # None
    \/ default_methods = "No" /\ body(it) = None

\* The last filter: a function by its body and the mode, the rest by the
\* mode alone.
mode_rule(default_methods, it) ==
    IF it.kind = "FN"
    THEN \/ default_methods = "Only" /\ body(it) # None
         \/ default_methods = "No" /\ body(it) = None
    ELSE default_methods = "No"

\* filter_assoc_items: filter_map to the sources, then the two filters.
filter_assoc_items(items, default_methods) ==
    LET HasSource(i) == i.source # None
        sourced == SelectSeq(items, HasSource)
        asts == [k \in 1..Len(sourced) |-> sourced[k].source[1]]
        Rule(it) == mode_rule(default_methods, it)
    IN  SelectSeq(SelectSeq(asts, has_def_name), Rule)

----------------------------------------------------------------------------
(* add_trait_assoc_items_to_impl                                           *)

\* make::block_expr(None, Some(make::ext::expr_todo())) indented one level.
TodoBody == "{\n        todo!()\n    }"

\* clone_for_update, transform.apply and remove_attrs_and_docs.
prepare(assoc_item) == [assoc_item EXCEPT !.paths = "impl", !.attrs = FALSE]

\* Fn::get_or_create_body: an empty block is attached when there is none.
get_or_create_body(fn_) ==
    IF fn_.bodies = <<>> THEN [fn_ EXCEPT !.bodies = <<"{}">>] ELSE fn_

\* ted::replace of the first body node.
replace_body(fn_, new_body) ==
    [fn_ EXCEPT !.bodies = <<new_body>> \o Tail(fn_.bodies)]

\* Faulty variant of stub: every function gets the todo body.
stub_always(item) ==
    IF item.kind = "FN"
    THEN replace_body(get_or_create_body(item), TodoBody)
    ELSE IF item.kind = "TYPE_ALIAS"
    THEN [item EXCEPT !.type_bound_list = None]
    ELSE item

\* The match of the loop: a function without a body gets the todo body, a
\* type alias loses its bound list, anything else is left as it is.
stub(item) ==
    IF item.kind = "FN" /\ body(item) = None
    THEN replace_body(get_or_create_body(item), TodoBody)
    ELSE IF item.kind = "TYPE_ALIAS"
    THEN [item EXCEPT !.type_bound_list = None]
    ELSE item

\* add_trait_assoc_items_to_impl: the impl with the items added to its item
\* list (created when missing), and the first item; first_item.unwrap()
\* panics when there is no item.
add_trait_assoc_items_to_impl(items, impl_) ==
    LET existing == IF impl_.assoc_item_list = None THEN <<>>
                    ELSE impl_.assoc_item_list[1]
        added == [i \in 1..Len(items) |-> stub(prepare(items[i]))]
        res == [impl_ EXCEPT !.assoc_item_list = Some(existing \o added)]
    IN  IF items = <<>> THEN Panicked
        ELSE Returned("(ast::Impl, ast::AssocItem)",
                      [res |-> res, first_item |-> added[1]])

\* The candidates given: functions with and without a body, type aliases
\* with and without bounds, a const, a macro call.
Candidates ==
    {AstItem("FN", Some("foo"), <<>>, None, TRUE),
     AstItem("FN", Some("foo"), <<"{ 1 }">>, None, FALSE),
     AstItem("TYPE_ALIAS", Some("Bar"), <<>>, Some("Clone"), FALSE),
     AstItem("TYPE_ALIAS", Some("Bar"), <<>>, None, TRUE),
     AstItem("CONST", Some("BAZ"), <<>>, None, FALSE),
     AstItem("MACRO_CALL", None, <<>>, None, FALSE)}

RECURSIVE NumberedAst(_, _)
NumberedAst(i, items) ==
    IF items = <<>> THEN <<>>
    ELSE <<[Head(items) EXCEPT !.node = i]>> \o NumberedAst(i + 1, Tail(items))

CandidateLists == {NumberedAst(1, s) : s \in SeqUpTo(Candidates, MaxTraitItems)}

\* The impl the items are added to: its members, as ast::AssocItems.
TraitImpls ==
    {[assoc_item_list |-> l] :
        l \in {None, Some(<<>>),
               Some(<<[AstItem("FN", Some("old"), <<"{ 0 }">>, None, FALSE)
                          EXCEPT !.paths = "impl"]>>)}}

----------------------------------------------------------------------------
(* Requests.                                                               *)

Idle == [op |-> "idle"]

Init ==
    /\ pc = "idle"
    /\ call = Idle
    /\ ret = Pending
    /\ edits = <<>>

HasFn ==
    /\ pc = "idle"
    /\ \E l \in ItemLists, n \in Names :
          LET imp == [assoc_item_list |-> l] IN
          /\ call' = [op |-> "has_fn", imp |-> imp, rhs_name |-> n]
          /\ ret' = Returned("bool", has_fn(imp, n))
    /\ pc' = "done"
    /\ UNCHANGED edits

FindStructImpl ==
    /\ pc = "idle"
    /\ \E adt \in LocateAdts, n \in {name_f, name_e_acute} :
          /\ call' = [op |-> "find_struct_impl", adt |-> adt, name |-> n]
          /\ ret' = Returned("Option<Option<ast::Impl>>", find_struct_impl(adt, n))
    /\ pc' = "done"
    /\ UNCHANGED edits

GenerateImplText ==
    /\ pc = "idle"
    /\ \E adt \in Adts(MaxAttrs, MaxParams) :
          /\ call' = [op |-> "generate_impl_text", adt |-> adt,
                      trait_text |-> None, code |-> <<"fn f() {}">>]
          /\ ret' = generate_impl_text(adt, <<"fn f() {}">>)
    /\ pc' = "done"
    /\ UNCHANGED edits

GenerateTraitImplText ==
    /\ pc = "idle"
    /\ \E adt \in Adts(MaxAttrs, MaxParams) :
          /\ call' = [op |-> "generate_trait_impl_text", adt |-> adt,
                      trait_text |-> Some("Tr"), code |-> <<"fn f() {}">>]
          /\ ret' = generate_trait_impl_text(adt, "Tr", <<"fn f() {}">>)
    /\ pc' = "done"
    /\ UNCHANGED edits

\* The assist calls add_method_to_adt with a fresh builder.
AddMethodToAdt ==
    /\ pc = "idle"
    /\ \E adt \in Adts(1, 1), impl_def \in MethodImpls :
          LET done == add_method_to_adt(edits, adt, impl_def, "fn m() {}") IN
          /\ call' = [op |-> "add_method_to_adt", adt |-> adt,
                      impl_def |-> impl_def, method |-> "fn m() {}"]
          /\ ret' = done.ret
          /\ edits' = done.builder
    /\ pc' = "done"

FilterAssocItems ==
    /\ pc = "idle"
    /\ \E items \in TraitItems, default_methods \in {"Only", "No"} :
          /\ call' = [op |-> "filter_assoc_items", items |-> items,
                      default_methods |-> default_methods]
          /\ ret' = Returned("Vec<ast::AssocItem>",
                             filter_assoc_items(items, default_methods))
    /\ pc' = "done"
    /\ UNCHANGED edits

AddTraitAssocItemsToImpl ==
    /\ pc = "idle"
    /\ \E items \in CandidateLists, impl_ \in TraitImpls :
          /\ call' = [op |-> "add_trait_assoc_items_to_impl", items |-> items,
                      impl_ |-> impl_]
          /\ ret' = add_trait_assoc_items_to_impl(items, impl_)
    /\ pc' = "done"
    /\ UNCHANGED edits

\* The call returns to the assist; nothing persists across requests.
Return ==
    /\ pc = "done"
    /\ pc' = "idle"
    /\ call' = Idle
    /\ ret' = Pending
    /\ edits' = <<>>

Next ==
    \/ HasFn
    \/ FindStructImpl
    \/ GenerateImplText
    \/ GenerateTraitImplText
    \/ AddMethodToAdt
    \/ FilterAssocItems
    \/ AddTraitAssocItemsToImpl
    \/ Return

Spec == Init /\ [][Next]_vars

----------------------------------------------------------------------------
(* Properties of find_struct_impl and has_fn.                              *)

\* The three outcomes of find_struct_impl, as values of Option<Option<Impl>>.
Conflict == None
NotFound == Some(None)
Found(impl) == Some(Some(impl))

InFindStructImpl == pc = "done" /\ call.op = "find_struct_impl"
InHasFn == pc = "done" /\ call.op = "has_fn"

\* The type declaration has a parent and resolves to a definition.
Resolvable(adt) == adt.parent # None /\ adt.to_def # None

\* An impl of the target type that declares no trait.
IsInherentImplOf(impl, def) ==
    /\ impl.to_def # None
    /\ impl.to_def[1].self_ty_adt = Some(def)
    /\ impl.to_def[1].trait_ = None

\* Positions of the inherent impls of the target type in the enclosing scope.
InherentAt(adt) ==
    {i \in 1..Len(adt.parent[1]) : IsInherentImplOf(adt.parent[1][i], adt.to_def[1])}

FirstInherent(adt) ==
    adt.parent[1][CHOOSE i \in InherentAt(adt) : \A j \in InherentAt(adt) : i <= j]

\* A Function member of the impl has the name, ASCII case ignored.
AsciiFold(name) ==
    [i \in 1..Len(name) |-> IF name[i] \in 65..90 THEN name[i] + 32 ELSE name[i]]
CollidesAscii(impl, name) ==
    /\ impl.assoc_item_list # None
    /\ \E i \in 1..Len(impl.assoc_item_list[1]) :
          LET m == impl.assoc_item_list[1][i] IN
          m.kind = "FN" /\ m.name # None /\ AsciiFold(m.name[1]) = AsciiFold(name)

\* The impls the claim speaks of: none when the declaration has no enclosing
\* scope or no resolved type to compare with.
MatchingAt(adt) == IF Resolvable(adt) THEN InherentAt(adt) ELSE {}

\* C1 as stated: every input gets one of three outcomes, decided by the first
\* impl of the enclosing scope whose self type is the target and that declares
\* no trait: NotFound when there is none, Conflict when it has a colliding
\* member, Found(that impl) otherwise.
C1_ThreeWayEveryInput ==
    InFindStructImpl =>
        IF MatchingAt(call.adt) = {} THEN Value(ret) = NotFound
        ELSE IF CollidesAscii(FirstInherent(call.adt), call.name)
             THEN Value(ret) = Conflict
             ELSE Value(ret) = Found(FirstInherent(call.adt))

\* C1 amended: for a type declaration that has an enclosing scope and resolves,
\* find_struct_impl gives exactly one of three outcomes, decided by the first
\* impl of the scope whose self type is the target and that declares no trait:
\* NotFound when there is none, Conflict when that first impl has a colliding
\* member, Found(that first impl) otherwise; later impls change nothing.  For
\* a declaration without an enclosing scope or that does not resolve, the
\* outcome is the Conflict value whatever the impls are.
C1_FirstMatchDecides ==
    InFindStructImpl =>
        /\ IsReturned(ret)
        /\ IF ~Resolvable(call.adt) THEN Value(ret) = Conflict
           ELSE IF InherentAt(call.adt) = {} THEN Value(ret) = NotFound
           ELSE IF CollidesAscii(FirstInherent(call.adt), call.name)
                THEN Value(ret) = Conflict
                ELSE Value(ret) = Found(FirstInherent(call.adt))

\* C1 witness: two inherent impls of the type, a collision only in the second,
\* and the first one is found.
C1_Witness ==
    /\ InFindStructImpl /\ Resolvable(call.adt)
    /\ Cardinality(InherentAt(call.adt)) = 2
    /\ \E i \in InherentAt(call.adt) : CollidesAscii(call.adt.parent[1][i], call.name)
    /\ ~CollidesAscii(FirstInherent(call.adt), call.name)
    /\ Value(ret) = Found(FirstInherent(call.adt))

\* A scope in which the only impl is an inherent impl of S that defines fn f.
ConflictExample ==
    [parent |-> Some(WithNodes(<<[to_def |-> Some([self_ty_adt |-> Some("S"),
                                                   trait_ |-> None]),
                                  assoc_item_list |->
                                      Some(Braced(<<Member("FN", Some(name_f))>>))]>>)),
     to_def |-> Some("S")]

\* The value find_struct_impl returns for a detected conflict.
ConflictValue == find_struct_impl(ConflictExample, name_f)

\* C2 as stated: the value returned when the type declaration has no parent or
\* does not resolve is never the value returned for a detected conflict.
C2_ConflictDistinctFromAbsence ==
    (InFindStructImpl /\ ~Resolvable(call.adt)) => Value(ret) # ConflictValue

\* C2 amended: the value returned for a detected conflict differs from NotFound
\* and from every Found(impl), but it is the value that is also returned when
\* the type declaration has no parent or does not resolve: the conflict value
\* is returned exactly in those three cases.
C2_ConflictValueCases ==
    InFindStructImpl =>
        (Value(ret) = ConflictValue <=>
            \/ ~Resolvable(call.adt)
            \/ /\ InherentAt(call.adt) # {}
               /\ CollidesAscii(FirstInherent(call.adt), call.name))

\* C2 witness: no conflict can have been detected (the scope has no impl at
\* all), the declaration does not resolve, and the conflict value is returned.
C2_Witness ==
    /\ InFindStructImpl
    /\ call.adt.parent = Some(<<>>)
    /\ call.adt.to_def = None
    /\ Value(ret) = ConflictValue

\* Case folding of the letters the names are made of: ASCII letters, and the
\* two-byte encodings U+00C0..U+00DE (0xC3 0x80..0x9E), whose lower case is
\* 0x20 higher.
CaseFold(name) ==
    [i \in 1..Len(name) |->
        IF name[i] \in 65..90 THEN name[i] + 32
        ELSE IF i > 1 /\ name[i - 1] = 195 /\ name[i] \in 128..158 /\ name[i] # 151
             THEN name[i] + 32
             ELSE name[i]]
CollidesAnyCase(impl, name) ==
    /\ impl.assoc_item_list # None
    /\ \E i \in 1..Len(impl.assoc_item_list[1]) :
          LET m == impl.assoc_item_list[1][i] IN
          m.kind = "FN" /\ m.name # None /\ CaseFold(m.name[1]) = CaseFold(name)

\* C5 as stated: has_fn answers "would collide" iff a Function member's name
\* equals the candidate name when case is ignored.
C5_HasFnIgnoresCase ==
    InHasFn => (Value(ret) <=> CollidesAnyCase(call.imp, call.rhs_name))

\* C5 amended: has_fn answers "would collide" iff the impl has an item list
\* with a Function member whose name equals the candidate name when the case
\* of ASCII letters is ignored (other letters compare exactly); members of
\* another kind, nameless functions and a missing item list never collide.
\* When it holds of the located impl, find_struct_impl reports the conflict
\* and no insertion is staged.
C5_HasFnIgnoresAsciiCase ==
    /\ InHasFn => (Value(ret) <=> CollidesAscii(call.imp, call.rhs_name))
    /\ (/\ InFindStructImpl /\ Resolvable(call.adt)
        /\ InherentAt(call.adt) # {}
        /\ CollidesAscii(FirstInherent(call.adt), call.name))
            => (Value(ret) = Conflict /\ edits = <<>>)

\* C5 witness: a collision with a function whose name differs in case only.
C5_Witness ==
    /\ InHasFn
    /\ Value(ret) = TRUE
    /\ \A i \in 1..Len(call.imp.assoc_item_list[1]) :
          call.imp.assoc_item_list[1][i].name # Some(call.rhs_name)

----------------------------------------------------------------------------
(* Properties of generate_impl_text_inner.                                 *)

\* A call of generate_impl_text or generate_trait_impl_text has returned.
InGenerate ==
    /\ pc = "done"
    /\ call.op \in {"generate_impl_text", "generate_trait_impl_text"}
    /\ IsReturned(ret)

\* Positions of a piece in a buffer, and the k-th smallest of a set of
\* positions.
Positions(buf, piece) == {i \in 1..Len(buf) : buf[i] = piece}
Nth(S, k) == CHOOSE i \in S : Cardinality({j \in S : j < i}) = k - 1

ImplAt(buf) == Nth(Positions(buf, "impl"), 1)

\* The k-th angle-bracket clause of the buffer, brackets included.
Clause(buf, k) ==
    SubSeq(buf, Nth(Positions(buf, "<"), k), Nth(Positions(buf, ">"), k))
Inner(clause) == SubSeq(clause, 2, Len(clause) - 1)

\* The header has its two clauses: one right after `impl`, one right after
\* the type name; or none at all.
HasBothClauses(buf, adt) ==
    /\ Cardinality(Positions(buf, "<")) = 2
    /\ Cardinality(Positions(buf, ">")) = 2
    /\ Nth(Positions(buf, "<"), 1) = ImplAt(buf) + 1
    /\ buf[Nth(Positions(buf, "<"), 2) - 1] = adt.name[1]
    /\ Nth(Positions(buf, "<"), 1) < Nth(Positions(buf, ">"), 1)
    /\ Nth(Positions(buf, ">"), 1) < Nth(Positions(buf, "<"), 2)
    /\ Nth(Positions(buf, "<"), 2) < Nth(Positions(buf, ">"), 2)
HasNoClause(buf) == Positions(buf, "<") = {} /\ Positions(buf, ">") = {}

\* The items of a clause: the runs of pieces between the ", " separators.
RECURSIVE Split(_)
Split(pieces) ==
    IF Positions(pieces, ", ") = {} THEN <<pieces>>
    ELSE LET k == Nth(Positions(pieces, ", "), 1) IN
         <<SubSeq(pieces, 1, k - 1)>> \o Split(SubSeq(pieces, k + 1, Len(pieces)))
Items(clause) == IF Inner(clause) = <<>> THEN <<>> ELSE Split(Inner(clause))

Declared(adt) ==
    IF adt.generic_param_list = None THEN <<>> ELSE adt.generic_param_list[1]

\* C6 as stated: for `<'a, T: Clone, const N: usize>` the clause after `impl`
\* is "<'a, T: Clone , const N: usize>" and the usage form is "<'a, T, N>".
C6_HeaderRoundTripSpaceBeforeComma ==
    (InGenerate /\ Declared(call.adt) = <<param_a, param_T, param_N>>) =>
        /\ HasBothClauses(Value(ret), call.adt)
        /\ Concat(Clause(Value(ret), 1)) = "<'a, T: Clone , const N: usize>"
        /\ Concat(Clause(Value(ret), 2)) = "<'a, T, N>"

\* C6 amended: for `<'a, T: Clone, const N: usize>` the clause after `impl`
\* is exactly "<'a, T: Clone, const N: usize>" (the type parameter is its
\* name, the colon, one space, the bounds: no space follows the bounds) and
\* the usage form after the type name is exactly "<'a, T, N>".
C6_HeaderRoundTrip ==
    (InGenerate /\ Declared(call.adt) = <<param_a, param_T, param_N>>) =>
        /\ HasBothClauses(Value(ret), call.adt)
        /\ Concat(Clause(Value(ret), 1)) = "<'a, T: Clone, const N: usize>"
        /\ Concat(Clause(Value(ret), 2)) = "<'a, T, N>"

\* C6 witness: a trait impl generated for that declaration.
C6_Witness ==
    /\ InGenerate
    /\ call.trait_text # None
    /\ Declared(call.adt) = <<param_a, param_T, param_N>>
    /\ Concat(Clause(Value(ret), 1)) = "<'a, T: Clone, const N: usize>"

\* What names a parameter in the clause after `impl` (the first piece of its
\* item) and in the usage form.
HeaderKey(p) == IF p.kind = "TYPE_PARAM" THEN p.name[1] ELSE p.text
UsageKey(p) == IF p.kind = "LIFETIME_PARAM" THEN p.lifetime[1] ELSE p.name[1]

\* C7: the clause after `impl` and the usage form both list the generic
\* parameters in the order of the declaration, whatever that order is.
C7_MirrorsDeclarationOrder ==
    (InGenerate /\ call.adt.generic_param_list # None) =>
        LET ps == Declared(call.adt)
            header == Items(Clause(Value(ret), 1))
            usage == Items(Clause(Value(ret), 2))
        IN  /\ Len(header) = Len(ps)
            /\ Len(usage) = Len(ps)
            /\ \A i \in 1..Len(ps) :
                  /\ Head(header[i]) = HeaderKey(ps[i])
                  /\ usage[i] = <<UsageKey(ps[i])>>

\* C8 as stated: the header has its angle-bracket clauses iff the declaration
\* has at least one generic parameter.
C8_ClauseIffSomeParam ==
    InGenerate =>
        IF Len(Declared(call.adt)) >= 1
        THEN HasBothClauses(Value(ret), call.adt)
        ELSE HasNoClause(Value(ret))

\* C8 amended: the header has its angle-bracket clauses (after `impl` and
\* after the type name) iff the declaration has a generic parameter list: a
\* declaration without one yields no `<>`, a declaration with an empty list
\* `<>` yields `impl<>` and `Name<>`.
C8_ClauseIffParamList ==
    InGenerate =>
        IF call.adt.generic_param_list # None
        THEN /\ HasBothClauses(Value(ret), call.adt)
             /\ (Declared(call.adt) = <<>> =>
                    /\ Clause(Value(ret), 1) = <<"<", ">">>
                    /\ Clause(Value(ret), 2) = <<"<", ">">>)
        ELSE HasNoClause(Value(ret))

\* C8 witness: an empty generic parameter list, and `<>` after `impl`.
C8_Witness ==
    /\ InGenerate
    /\ call.adt.generic_param_list = Some(<<>>)
    /\ Value(ret)[ImplAt(Value(ret)) + 1] = "<"
    /\ Value(ret)[ImplAt(Value(ret)) + 2] = ">"

\* Positions of the attributes that are a simple call named cfg.
CfgAt(adt) ==
    {i \in 1..Len(adt.attrs) : adt.attrs[i].simple_call = Some("cfg")}

\* C9: between the leading "\n\n" and `impl` come exactly the declaration's
\* attributes named cfg, in their order, each followed by a line break, the
\* last one immediately before `impl`; no other attribute, none twice.
C9_CfgPropagation ==
    InGenerate =>
        LET buf == Value(ret)
            n == Cardinality(CfgAt(call.adt))
        IN  /\ buf[1] = "\n\n"
            /\ ImplAt(buf) = 2 * n + 2
            /\ \A k \in 1..n :
                  /\ buf[2 * k] = call.adt.attrs[Nth(CfgAt(call.adt), k)].text
                  /\ buf[2 * k + 1] = "\n"

\* C9 witness: `#[cfg(unix)]` and `#[derive(Debug)]` on the declaration, and
\* only the first is on the line before `impl`.
C9_Witness ==
    /\ InGenerate
    /\ call.adt.attrs = <<Attr(Some("cfg"), "#[cfg(unix)]"),
                          Attr(Some("derive"), "#[derive(Debug)]")>>
    /\ SubSeq(Value(ret), 1, 4) = <<"\n\n", "#[cfg(unix)]", "\n", "impl">>

----------------------------------------------------------------------------
(* Properties of add_method_to_adt.                                        *)

InAddMethod == pc = "done" /\ call.op = "add_method_to_adt"

\* The impl given has an item list whose first `}` has something before it.
BraceAt(impl) ==
    {i \in 1..Len(impl.assoc_item_list[1]) :
        /\ impl.assoc_item_list[1][i].kind = "R_CURLY"
        /\ \A j \in 1..(i - 1) : impl.assoc_item_list[1][j].kind # "R_CURLY"}
HasBlockEnd(impl_def) ==
    /\ impl_def # None
    /\ impl_def[1].assoc_item_list # None
    /\ BraceAt(impl_def[1]) # {}
    /\ BraceAt(impl_def[1]) # {1}

\* A conflict was detected by find_struct_impl.
ConflictDetected ==
    /\ InFindStructImpl /\ Resolvable(call.adt)
    /\ InherentAt(call.adt) # {}
    /\ CollidesAscii(FirstInherent(call.adt), call.name)

ClosingBrace == call.impl_def[1].assoc_item_list[1][Nth(BraceAt(call.impl_def[1]), 1)]
BeforeBrace == call.impl_def[1].assoc_item_list[1][Nth(BraceAt(call.impl_def[1]), 1) - 1]

\* The call extends an existing impl: its item list has a closing brace with
\* something before it.
OnExtendPath == InAddMethod /\ HasBlockEnd(call.impl_def)

\* C11 as stated: on the extend path exactly one insertion is staged, at the
\* end of what immediately precedes the closing brace, and its text is one
\* line break followed by the method text and nothing else.
C11_ExtendInsertsNewlineThenMethodOnly ==
    OnExtendPath =>
        /\ IsReturned(ret)
        /\ Len(edits) = 1
        /\ edits[1].offset = BeforeBrace.end
        /\ edits[1].offset <= ClosingBrace.start
        /\ Concat(edits[1].text) = Concat(<<"\n", call.method>>)

\* C11 amended: on the extend path exactly one insertion is staged, at the
\* end of what immediately precedes the closing brace (so before the brace,
\* never after it), and its text is one line break, the method text, and one
\* more line break, the one find_impl_block_end pushes to the buffer.
C11_ExtendInsertsMethodBetweenNewlines ==
    OnExtendPath =>
        /\ IsReturned(ret)
        /\ Len(edits) = 1
        /\ edits[1].offset = BeforeBrace.end
        /\ edits[1].offset <= ClosingBrace.start
        /\ edits[1].offset < ClosingBrace.end
        /\ Concat(edits[1].text) = Concat(<<"\n", call.method, "\n">>)

\* C11 witness: an impl whose item list holds a function before its closing
\* brace, and the method staged after that function, before the brace.
C11_Witness ==
    /\ OnExtendPath
    /\ BeforeBrace.kind = "FN"
    /\ Len(edits) = 1
    /\ edits[1].offset = BeforeBrace.end
    /\ edits[1].offset = ClosingBrace.start
    /\ edits[1].text = <<"\n", call.method, "\n">>

----------------------------------------------------------------------------
(* Properties of filter_assoc_items and add_trait_assoc_items_to_impl.     *)

InFilter == pc = "done" /\ call.op = "filter_assoc_items"

\* The rule of the selection, for an item of the trait.
Keep(i, mode) ==
    /\ i.source # None
    /\ i.source[1].name # None
    /\ IF i.kind = "Function"
       THEN \/ mode = "Only" /\ i.source[1].bodies # <<>>
            \/ mode = "No" /\ i.source[1].bodies = <<>>
       ELSE mode = "No"

KeptAt(items, mode) == {i \in 1..Len(items) : Keep(items[i], mode)}

\* C4: filter_assoc_items returns, in the order of its input, exactly the
\* items that have a source and a name and satisfy the mode rule (a function
\* by its body, a type alias or a const by the mode alone): each once,
\* nothing else.
C4_SelectsInOrder ==
    InFilter =>
        LET out == Value(ret)
            kept == KeptAt(call.items, call.default_methods)
        IN  /\ Len(out) = Cardinality(kept)
            /\ \A k \in 1..Len(out) : out[k] = call.items[Nth(kept, k)].source[1]

\* C4 witness: with the mode No-defaults a const that has a default is kept,
\* after a kept function, and a function with a body between them is not.
C4_Witness ==
    /\ InFilter
    /\ call.default_methods = "No"
    /\ Len(call.items) = 3
    /\ call.items[1].kind = "Function" /\ Keep(call.items[1], "No")
    /\ call.items[2].kind = "Function" /\ call.items[2].source # None
    /\ call.items[2].source[1].bodies # <<>>
    /\ call.items[3].kind = "Const" /\ call.items[3].source # None
    /\ call.items[3].source[1].bodies # <<>>
    /\ Len(Value(ret)) = 2
    /\ Value(ret)[2].node = 3

InAddTraitItems == pc = "done" /\ call.op = "add_trait_assoc_items_to_impl"

Existing(impl) ==
    IF impl.assoc_item_list = None THEN <<>> ELSE impl.assoc_item_list[1]

\* C10: add_trait_assoc_items_to_impl returns unless it is given no item (it
\* then panics).  In the impl it returns, the candidates follow the members
\* the impl had, in their input order; every function among them has exactly
\* one body, the todo body iff it had none and its own body otherwise; the
\* first candidate is the item returned.
C10_BodyCompleteness ==
    InAddTraitItems =>
        IF call.items = <<>> THEN ret = Panicked
        ELSE /\ IsReturned(ret)
             /\ LET list == Value(ret).res.assoc_item_list[1]
                    old == Existing(call.impl_)
                    n == Len(call.items)
                IN  /\ Len(list) = Len(old) + n
                    /\ SubSeq(list, 1, Len(old)) = old
                    /\ \A i \in 1..n :
                          LET new == list[Len(old) + i]
                              src == call.items[i]
                          IN  /\ new.node = src.node
                              /\ new.kind = src.kind
                              /\ new.kind = "FN" =>
                                    /\ Len(new.bodies) = 1
                                    /\ (new.bodies = <<TodoBody>>) <=> (src.bodies = <<>>)
                                    /\ src.bodies # <<>> => new.bodies = src.bodies
                    /\ Value(ret).first_item = list[Len(old) + 1]

\* C10 witness: a function with a body after one without, added to an impl
\* that has a member: the first gets the todo body and is the item returned.
C10_Witness ==
    /\ InAddTraitItems /\ IsReturned(ret)
    /\ Len(call.items) >= 2
    /\ call.items[1].kind = "FN" /\ call.items[1].bodies = <<>>
    /\ call.items[2].kind = "FN" /\ call.items[2].bodies # <<>>
    /\ Existing(call.impl_) # <<>>
    /\ Value(ret).first_item.bodies = <<TodoBody>>
    /\ Value(ret).res.assoc_item_list[1][3].bodies = call.items[2].bodies

====
